---------------------------- MODULE Spec2Model ----------------------------
(***************************************************************************)
(* A model of the sharded TTL cache of go-ttlcache (sharded.go): the seeded *)
(* djb33 hash, bucket selection, the keyed operations forwarded to one      *)
(* shard, the fan-out operations that visit every shard in order, and the   *)
(* janitor goroutine with its tick and stop channels.                       *)
(*                                                                         *)
(* The single-shard cache (type cache[K, V]) is not part of sharded.go; its *)
(* operations are modelled from the contract the specification gives for    *)
(* them (the operators named cacheSet, cacheGet, ...).                      *)
(***************************************************************************)
EXTENDS Integers, Sequences, FiniteSets, TLC

VARIABLES
    seed,      \* sc.seed: uint32, as a pair of 16-bit halves
    m,         \* sc.m: the number of shards
    de,        \* cache.defaultExpiration of every shard
    cs,        \* sc.cs: shard index -> items map (key -> Item)
    lock,      \* shard index -> holder of that shard's mutex, or Free
    now,       \* the clock (time.Now), in ticks of one time unit
    fan,       \* fan-out process -> its position in a fan-out operation
    janPc,     \* position of the janitor goroutine in shardedJanitor.Run
    interval,  \* the cleanup interval handed to the constructor (j.Interval)
    tick,      \* a tick is waiting in the channel returned by time.Tick
    nextTick,  \* the instant the ticker fires next
    stPc,      \* caller of stopShardedJanitor -> its position
    ret,       \* the step just taken: a call and its result, else NoCall
    route,     \* history: key -> the shard index its first call selected
    dirty      \* history: the fan-out callers whose running call a write overlapped

vars == <<seed, m, de, cs, lock, now, fan, janPc, interval, tick, nextTick,
          stPc, ret, route, dirty>>

----------------------------------------------------------------------------
(* Bounds of the model.                                                    *)

\* The clock runs from 1 to MaxTime.
MaxTime == 2

\* The constructor is called with 1..MaxShards shards.
MaxShards == 2

\* The clock of the timed specification runs from 1 to MaxTimed.
MaxTimed == 6

\* The keys handed to the hash are 0..MaxKeyLen bytes long.
MaxKeyLen == 9

----------------------------------------------------------------------------
(* uint32 arithmetic.  A uint32 is a record [hi, lo] of two 16-bit halves,  *)
(* so that every intermediate value stays inside the checker's integers.   *)

W16 == 65536

U32(hi, lo) == [hi |-> hi, lo |-> lo]

\* a + b, wrapping modulo 2^32
Add32(a, b) ==
    LET s == a.lo + b.lo
    IN  U32((a.hi + b.hi + (s \div W16)) % W16, s % W16)

\* a * 33, wrapping modulo 2^32
Mul33(a) ==
    LET p == a.lo * 33
    IN  U32((a.hi * 33 + (p \div W16)) % W16, p % W16)

RECURSIVE XorNat(_, _)
\* bitwise exclusive or of two naturals
XorNat(a, b) ==
    IF a = 0 THEN b
    ELSE IF b = 0 THEN a
    ELSE ((a + b) % 2) + 2 * XorNat(a \div 2, b \div 2)

\* a ^ uint32(b) for a byte b
XorByte(a, b) == U32(a.hi, XorNat(a.lo, b))

\* a ^ (a >> 16)
FoldHigh(a) == U32(a.hi, XorNat(a.lo, a.hi))

\* a % n for a small positive n
Mod32(a, n) == (((a.hi % n) * (W16 % n)) + a.lo) % n

----------------------------------------------------------------------------
(* Keys.  A key of type K is a record: a string or []byte key carries its  *)
(* bytes, a key of any other comparable type carries a plain value.        *)

StrKey(bytes) == [kind |-> "string", bytes |-> bytes]

BytesKey(bytes) == [kind |-> "bytes", bytes |-> bytes]

\* a key of a comparable type that is neither string nor []byte; the field
\* holds its value, which the type switch of djb33 never looks at
OtherKey(v) == [kind |-> "other", bytes |-> v]

\* a type switch with a default case that takes the bytes of any key
kRawAnyKind(k) == k.bytes

\* the type switch of djb33: kRaw stays nil for every other key type
kRaw(k) == IF k.kind \in {"string", "bytes"} THEN k.bytes ELSE <<>>

\* d = (d * 33) ^ uint32(b)
Mix(d, b) == XorByte(Mul33(d), b)

RECURSIVE djb33LoopInclusive(_, _, _)
\* a loop that also consumes the last full group: while i <= l-4
djb33LoopInclusive(d, raw, i) ==
    IF Len(raw) >= 4 /\ i <= Len(raw) - 4
    THEN djb33LoopInclusive(Mix(Mix(Mix(Mix(d, raw[i+1]), raw[i+2]), raw[i+3]), raw[i+4]),
                            raw, i + 4)
    ELSE [d |-> d, i |-> i]

RECURSIVE djb33Loop(_, _, _)
\* the unrolled loop: while i < l-4, mix four bytes and advance i by 4
\* (i is the Go index, the TLA+ sequence is indexed from 1)
djb33Loop(d, raw, i) ==
    IF Len(raw) >= 4 /\ i < Len(raw) - 4
    THEN djb33Loop(Mix(Mix(Mix(Mix(d, raw[i+1]), raw[i+2]), raw[i+3]), raw[i+4]),
                   raw, i + 4)
    ELSE [d |-> d, i |-> i]

\* a switch that mixes every byte the loop has left
djb33TailAllBytes(d, raw, i) ==
    LET r == Len(raw) - i
    IN  CASE r = 1 -> Mix(d, raw[i+1])
          [] r = 2 -> Mix(Mix(d, raw[i+1]), raw[i+2])
          [] r = 3 -> Mix(Mix(Mix(d, raw[i+1]), raw[i+2]), raw[i+3])
          [] r = 4 -> Mix(Mix(Mix(Mix(d, raw[i+1]), raw[i+2]), raw[i+3]), raw[i+4])
          [] OTHER -> d

\* the switch on l - i after the loop
djb33Tail(d, raw, i) ==
    LET r == Len(raw) - i
    IN  CASE r = 2 -> Mix(d, raw[i+1])
          [] r = 3 -> Mix(Mix(d, raw[i+1]), raw[i+2])
          [] r = 4 -> Mix(Mix(Mix(d, raw[i+1]), raw[i+2]), raw[i+3])
          [] OTHER -> d

\* a hash that starts from 5381 + l and leaves the seed out
djb33Unseeded(sd, k) ==
    LET raw  == kRaw(k)
        d0   == Add32(U32(0, 5381), U32(0, Len(raw)))
        loop == djb33Loop(d0, raw, 0)
        d    == djb33Tail(loop.d, raw, loop.i)
    IN  FoldHigh(d)

djb33(sd, k) ==
    LET raw  == kRaw(k)
        d0   == Add32(Add32(U32(0, 5381), sd), U32(0, Len(raw)))
        loop == djb33Loop(d0, raw, 0)
        d    == djb33Tail(loop.d, raw, loop.i)
    IN  FoldHigh(d)

----------------------------------------------------------------------------
(* The inputs the operations are called with.                              *)

\* "ab" and "ba" as string keys
KeyAB == StrKey(<<97, 98>>)
KeyBA == StrKey(<<98, 97>>)
Keys == {KeyAB, KeyBA}

Values == {"x", "y"}

\* NoExpiration and DefaultExpiration, the two distinguished durations
NoExpiration == -1
DefaultExpiration == 0

\* the durations a caller passes: the two distinguished ones and explicit ones
Durations == {NoExpiration, DefaultExpiration, 1}

\* the seeds the constructor may draw: rand.Int(rand.Reader, MaxUint32)
Seeds == {U32(0, 1), U32(65535, 65534)}

\* the defaultExpiration and cleanupInterval arguments of the constructor
DefaultExpirations == {0, 2}

\* the constructions the model starts from: each seed with one of the
\* defaultExpiration arguments
SeedAndDefault ==
    {p \in Seeds \X DefaultExpirations : (p[1].hi = 0) <=> (p[2] = 0)}
Intervals == {0, 1}
AnyIntervals == {-1, 0, 1}
TimedIntervals == {1, 2}

\* the byte sequences the hash is applied to: l bytes 97 ('a'), of which the
\* byte at position p (none for p = 0) is replaced by b
Marked(l, p, b) == [i \in 1 .. l |-> IF i = p THEN b ELSE 97]

ByteSeqs == {Marked(l, p, b) : l \in 0 .. MaxKeyLen, p \in 0 .. MaxKeyLen, b \in {98, 255}}

\* the keys the hash is applied to: string keys, []byte keys, and keys of
\* another type
HashKeys ==
    {StrKey(s) : s \in ByteSeqs}
        \cup {BytesKey(s) : s \in {q \in ByteSeqs : Len(q) <= 2}}
        \cup {OtherKey(s) : s \in {q \in ByteSeqs : Len(q) <= 2}}

\* the seeds the hash is applied with: those of the constructions above,
\* zero, and the seed for which 5381 + seed wraps around to 0
HashSeeds == Seeds \cup {U32(0, 0), U32(65535, 60155)}

Shards == 0 .. (m - 1)

----------------------------------------------------------------------------
(* The single-shard cache: an items map and the operations on it.  An Item *)
(* is [Object, Expiration]; Expiration 0 means the item never expires.     *)

NoItems == [k \in {} |-> 0]

Item(x, e) == [Object |-> x, Expiration |-> e]

\* the item is expired once the clock has reached its expiration instant
Expired(it, t) == it.Expiration > 0 /\ t >= it.Expiration

\* the expiration instant of an item stored at t for duration d
expirationOf(d, dflt, t) ==
    LET dd == IF d = DefaultExpiration THEN dflt ELSE d
    IN  IF dd > 0 THEN t + dd ELSE 0

Put(items, k, it) ==
    [x \in (DOMAIN items) \cup {k} |-> IF x = k THEN it ELSE items[x]]

Remove(items, ks) == [x \in (DOMAIN items) \ ks |-> items[x]]

Live(items, k, t) == k \in DOMAIN items /\ ~Expired(items[k], t)

\* cache.Set: unconditional insert or overwrite
cacheSet(items, k, x, d, dflt, t) == Put(items, k, Item(x, expirationOf(d, dflt, t)))

\* cache.Get: the lazy expiry check; the map is not changed
cacheGet(items, k, t) ==
    IF Live(items, k, t) THEN [val |-> items[k].Object, found |-> TRUE]
    ELSE [val |-> "nil", found |-> FALSE]

\* cache.Add: insert only if the key is absent or expired
cacheAdd(items, k, x, d, dflt, t) ==
    IF Live(items, k, t) THEN [items |-> items, err |-> "ErrKeyExists"]
    ELSE [items |-> cacheSet(items, k, x, d, dflt, t), err |-> "nil"]

\* cache.Replace: overwrite only if the key is present and unexpired
cacheReplace(items, k, x, d, dflt, t) ==
    IF Live(items, k, t)
    THEN [items |-> cacheSet(items, k, x, d, dflt, t), err |-> "nil"]
    ELSE [items |-> items, err |-> "ErrKeyNotFound"]

\* cache.Delete: unconditional removal
cacheDelete(items, k) == Remove(items, {k})

\* cache.DeleteExpired: purge every expired item of this shard
cacheDeleteExpired(items, t) ==
    Remove(items, {k \in DOMAIN items : Expired(items[k], t)})

\* cache.Flush: remove every item
cacheFlush(items) == NoItems

----------------------------------------------------------------------------
(* Construction.                                                           *)

Free == "free"
Janitor == "janitor"

\* the callers of the fan-out operations: one foreground caller, the janitor
Callers == {"fg"}
FanProcs == Callers \cup {Janitor}

\* the callers of stopShardedJanitor
Stoppers == {"s1"}

Idle == [op |-> "idle", i |-> 0, held |-> FALSE]

\* a keyed call and its result: the operation, its key, the value and the
\* duration it stored (if it stored), the shard index it selected, and what
\* it returned
Call(op, k, x, d, i, val, ok) ==
    [op |-> op, k |-> k, x |-> x, d |-> d, shard |-> i, val |-> val, ok |-> ok]

NoCall == Call("none", KeyAB, "nil", 0, 0, "nil", TRUE)

\* newShardedCache(n, dflt): the seed, the shard count and n empty shards
newShardedCache(sd, n, dflt) ==
    /\ seed = sd
    /\ m = n
    /\ de = dflt
    /\ cs = [i \in 0 .. (n - 1) |-> NoItems]
    /\ lock = [i \in 0 .. (n - 1) |-> Free]

\* runShardedJanitor(sc, ci): the janitor is stored and its goroutine spawned
runShardedJanitor(ci) ==
    /\ janPc = "spawned"
    /\ interval = ci

\* a constructor that starts the janitor for every cleanup interval but a
\* negative one
unexportedNewShardedFromZero(sd, dfltArg, ci, n) ==
    /\ newShardedCache(sd, n, IF dfltArg = 0 THEN -1 ELSE dfltArg)
    /\ IF ci >= 0 THEN runShardedJanitor(ci)
       ELSE janPc = "none" /\ interval = ci

\* unexportedNewSharded(defaultExpiration, cleanupInterval, shards)
unexportedNewSharded(sd, dfltArg, ci, n) ==
    /\ newShardedCache(sd, n, IF dfltArg = 0 THEN -1 ELSE dfltArg)
    /\ IF ci > 0 THEN runShardedJanitor(ci)
       ELSE janPc = "none" /\ interval = ci

\* the state the constructor returns, for a cleanup interval drawn from cis
Constructed(cis) ==
    /\ \E sdd \in SeedAndDefault, ci \in cis, n \in 1 .. MaxShards :
          unexportedNewSharded(sdd[1], sdd[2], ci, n)
    /\ now = 1
    /\ fan = [p \in FanProcs |-> Idle]
    /\ tick = FALSE
    /\ nextTick = 0
    /\ stPc = [s \in Stoppers |-> "idle"]
    /\ ret = NoCall
    /\ route = [k \in Keys |-> -1]
    /\ dirty = {}

\* a cache built without a janitor, and one built with any interval
Init == Constructed({0})

InitJanitor == Constructed(Intervals)

InitTimed == Constructed(TimedIntervals)

InitAnyInterval == Constructed(AnyIntervals)

----------------------------------------------------------------------------
(* Bucket selection and the keyed operations.  Each keyed operation picks  *)
(* one shard and runs that shard's operation under that shard's lock.      *)

\* the hash of every key under every seed the model uses
HashOf == [sd \in Seeds, k \in Keys |-> djb33(sd, k)]

\* bucket with the hash salted by the clock instead of depending on the
\* seed and the key alone
bucketClockSalted(k) == Mod32(Add32(HashOf[seed, k], U32(0, now)), m)

\* sc.bucket(k): the index of the shard djb33(sc.seed, k) % sc.m selects
bucket(k) == Mod32(HashOf[seed, k], m)

\* what every keyed operation leaves alone
KeyedFrame == UNCHANGED <<seed, m, de, lock, now, fan, janPc, interval, tick,
                          nextTick, stPc>>

Routed(k, i) == route' = IF route[k] = -1 THEN [route EXCEPT ![k] = i] ELSE route

\* a write was applied while these fan-out calls were running
Wrote(changed) ==
    dirty' = IF changed THEN dirty \cup {p \in Callers : fan[p].op = "Flush"} ELSE dirty

\* Set that also purges the expired items of every other shard
SetPurgingOthers(k, x, d) ==
    LET i == bucket(k) IN
    /\ lock[i] = Free
    /\ cs' = [j \in Shards |-> IF j = i THEN cacheSet(cs[i], k, x, d, de, now)
                                ELSE cacheDeleteExpired(cs[j], now)]
    /\ ret' = Call("Set", k, x, d, i, "nil", TRUE)
    /\ Routed(k, i)
    /\ Wrote(TRUE)
    /\ KeyedFrame

Set(k, x, d) ==
    LET i == bucket(k) IN
    /\ lock[i] = Free
    /\ cs' = [cs EXCEPT ![i] = cacheSet(cs[i], k, x, d, de, now)]
    /\ ret' = Call("Set", k, x, d, i, "nil", TRUE)
    /\ Routed(k, i)
    /\ Wrote(TRUE)
    /\ KeyedFrame

\* Add that always goes to the first shard
AddToFirstShard(k, x, d) ==
    LET r == cacheAdd(cs[0], k, x, d, de, now) IN
    /\ lock[0] = Free
    /\ cs' = [cs EXCEPT ![0] = r.items]
    /\ ret' = IF r.err = "nil" THEN Call("Add", k, x, d, 0, r.err, TRUE)
              ELSE Call("Add", k, "nil", 0, 0, r.err, FALSE)
    /\ Routed(k, 0)
    /\ Wrote(r.err = "nil")
    /\ KeyedFrame

\* Add that forwards to the shard's Set
AddAsSet(k, x, d) ==
    LET i == bucket(k) IN
    /\ lock[i] = Free
    /\ cs' = [cs EXCEPT ![i] = cacheSet(cs[i], k, x, d, de, now)]
    /\ ret' = Call("Add", k, x, d, i, "nil", TRUE)
    /\ Routed(k, i)
    /\ Wrote(TRUE)
    /\ KeyedFrame

Add(k, x, d) ==
    LET i == bucket(k)
        r == cacheAdd(cs[i], k, x, d, de, now) IN
    /\ lock[i] = Free
    /\ cs' = [cs EXCEPT ![i] = r.items]
    /\ ret' = IF r.err = "nil" THEN Call("Add", k, x, d, i, r.err, TRUE)
              ELSE Call("Add", k, "nil", 0, i, r.err, FALSE)
    /\ Routed(k, i)
    /\ Wrote(r.err = "nil")
    /\ KeyedFrame

\* Replace that forwards to the shard's Set
ReplaceAsSet(k, x, d) ==
    LET i == bucket(k) IN
    /\ lock[i] = Free
    /\ cs' = [cs EXCEPT ![i] = cacheSet(cs[i], k, x, d, de, now)]
    /\ ret' = Call("Replace", k, x, d, i, "nil", TRUE)
    /\ Routed(k, i)
    /\ Wrote(TRUE)
    /\ KeyedFrame

Replace(k, x, d) ==
    LET i == bucket(k)
        r == cacheReplace(cs[i], k, x, d, de, now) IN
    /\ lock[i] = Free
    /\ cs' = [cs EXCEPT ![i] = r.items]
    /\ ret' = IF r.err = "nil" THEN Call("Replace", k, x, d, i, r.err, TRUE)
              ELSE Call("Replace", k, "nil", 0, i, r.err, FALSE)
    /\ Routed(k, i)
    /\ Wrote(r.err = "nil")
    /\ KeyedFrame

\* Get that hashes the key with a fixed seed instead of sc.seed
GetFixedSeed(k) ==
    LET i == Mod32(HashOf[U32(0, 1), k], m)
        r == cacheGet(cs[i], k, now) IN
    /\ lock[i] = Free
    /\ ret' = Call("Get", k, "nil", 0, i, r.val, r.found)
    /\ Routed(k, i)
    /\ UNCHANGED <<cs, dirty>>
    /\ KeyedFrame

Get(k) ==
    LET i == bucket(k)
        r == cacheGet(cs[i], k, now) IN
    /\ lock[i] = Free
    /\ ret' = Call("Get", k, "nil", 0, i, r.val, r.found)
    /\ Routed(k, i)
    /\ UNCHANGED <<cs, dirty>>
    /\ KeyedFrame

\* Delete that always goes to the first shard
DeleteFromFirstShard(k) ==
    /\ lock[0] = Free
    /\ cs' = [cs EXCEPT ![0] = cacheDelete(cs[0], k)]
    /\ ret' = Call("Delete", k, "nil", 0, 0, "nil", TRUE)
    /\ Routed(k, 0)
    /\ UNCHANGED dirty
    /\ KeyedFrame

Delete(k) ==
    LET i == bucket(k) IN
    /\ lock[i] = Free
    /\ cs' = [cs EXCEPT ![i] = cacheDelete(cs[i], k)]
    /\ ret' = Call("Delete", k, "nil", 0, i, "nil", TRUE)
    /\ Routed(k, i)
    /\ UNCHANGED dirty
    /\ KeyedFrame

----------------------------------------------------------------------------
(* The fan-out operations.  Each visits the shards in router order; a      *)
(* shard's own operation runs under that shard's lock, which is released   *)
(* before the next shard is visited.                                       *)

\* DeleteExpired that calls Flush on each shard
shardOpAllFlush(op, items, t) ==
    CASE op = "DeleteExpired" -> cacheFlush(items)
      [] op = "Flush"         -> cacheFlush(items)
      [] op = "Items"         -> items

\* the shard operation a fan-out operation calls on each shard
shardOp(op, items, t) ==
    CASE op = "DeleteExpired" -> cacheDeleteExpired(items, t)
      [] op = "Flush"         -> cacheFlush(items)
      [] op = "Items"         -> items

\* a loop that stops one shard short
rangeLenShort == m - 1

\* the number of shards the loop of a fan-out operation visits
rangeLen == m

FanFrame ==
    /\ ret' = NoCall
    /\ UNCHANGED <<seed, m, de, now, interval, tick, nextTick, stPc, route>>

\* a caller enters a fan-out operation: the loop starts at shard 0
FanCall(p, op) ==
    /\ fan[p] = Idle
    /\ fan' = [fan EXCEPT ![p] = [op |-> op, i |-> 0, held |-> FALSE]]
    /\ dirty' = dirty \ {p}
    /\ UNCHANGED <<cs, lock, janPc>>
    /\ FanFrame

DeleteExpired(p) == FanCall(p, "DeleteExpired")

Items(p) == FanCall(p, "Items")

Flush(p) == FanCall(p, "Flush")

\* the shard operation takes the lock of the shard the loop is at
ShardLock(p) ==
    /\ fan[p].op # "idle"
    /\ ~fan[p].held
    /\ lock[fan[p].i] = Free
    /\ lock' = [lock EXCEPT ![fan[p].i] = p]
    /\ fan' = [fan EXCEPT ![p].held = TRUE]
    /\ UNCHANGED <<cs, janPc, dirty>>
    /\ FanFrame

\* a shard step whose loop does not move on to the next shard
ShardStepNoAdvance(p) ==
    LET i == fan[p].i IN
    /\ fan[p].op # "idle"
    /\ fan[p].held
    /\ cs' = [cs EXCEPT ![i] = shardOp(fan[p].op, cs[i], now)]
    /\ lock' = [lock EXCEPT ![i] = Free]
    /\ fan' = [fan EXCEPT ![p] = IF rangeLen > 1
                                  THEN [op |-> fan[p].op, i |-> i, held |-> FALSE]
                                  ELSE Idle]
    /\ janPc' = IF p = Janitor /\ ~(rangeLen > 1) THEN "select" ELSE janPc
    /\ UNCHANGED dirty
    /\ FanFrame

\* a shard step that keeps the shard locked when the loop moves on, as an
\* unlock deferred to the end of the loop would
ShardStepKeepLock(p) ==
    LET i == fan[p].i IN
    /\ fan[p].op # "idle"
    /\ fan[p].held
    /\ cs' = [cs EXCEPT ![i] = shardOp(fan[p].op, cs[i], now)]
    /\ lock' = IF i + 1 < rangeLen THEN lock
               ELSE [j \in Shards |-> IF lock[j] = p THEN Free ELSE lock[j]]
    /\ fan' = [fan EXCEPT ![p] = IF i + 1 < rangeLen
                                  THEN [op |-> fan[p].op, i |-> i + 1, held |-> FALSE]
                                  ELSE Idle]
    /\ janPc' = IF p = Janitor /\ ~(i + 1 < rangeLen) THEN "select" ELSE janPc
    /\ UNCHANGED dirty
    /\ FanFrame

\* the shard operation runs and unlocks; the loop moves on or the call returns
\* (the janitor goes back to its select)
ShardStep(p) ==
    LET i == fan[p].i IN
    /\ fan[p].op # "idle"
    /\ fan[p].held
    /\ cs' = [cs EXCEPT ![i] = shardOp(fan[p].op, cs[i], now)]
    /\ lock' = [lock EXCEPT ![i] = Free]
    /\ fan' = [fan EXCEPT ![p] = IF i + 1 < rangeLen
                                  THEN [op |-> fan[p].op, i |-> i + 1, held |-> FALSE]
                                  ELSE Idle]
    /\ janPc' = IF p = Janitor /\ ~(i + 1 < rangeLen) THEN "select" ELSE janPc
    /\ UNCHANGED dirty
    /\ FanFrame

\* A fan-out operation run from call to return with no other step in
\* between, as in a sequential program: the loop calls the shard operation
\* on every shard in turn, each under its shard's lock.  ret records the call.
RunToReturn(op) ==
    /\ \A p \in FanProcs : fan[p] = Idle
    /\ \A i \in Shards : lock[i] = Free
    /\ cs' = [i \in Shards |-> IF i < rangeLen THEN shardOp(op, cs[i], now) ELSE cs[i]]
    /\ ret' = Call(op, KeyAB, "nil", 0, 0, "nil", TRUE)
    /\ UNCHANGED <<seed, m, de, lock, now, fan, janPc, interval, tick, nextTick,
                   stPc, route, dirty>>

----------------------------------------------------------------------------
(* The janitor goroutine (shardedJanitor.Run) and stopShardedJanitor.      *)

JanFrame ==
    /\ ret' = NoCall
    /\ UNCHANGED <<seed, m, de, cs, lock, now, interval, route, dirty>>

\* Run starts: j.stop = make(chan bool); tick := time.Tick(j.Interval)
RunStart ==
    /\ janPc = "spawned"
    /\ janPc' = "select"
    /\ nextTick' = now + interval
    /\ UNCHANGED <<fan, tick, stPc>>
    /\ JanFrame

\* a tick that is received without a sweep
RunTickNoSweep ==
    /\ janPc = "select"
    /\ tick
    /\ tick' = FALSE
    /\ UNCHANGED <<janPc, fan, nextTick, stPc>>
    /\ JanFrame

\* case <-tick: sc.DeleteExpired()
RunTick ==
    /\ janPc = "select"
    /\ tick
    /\ tick' = FALSE
    /\ janPc' = "sweep"
    /\ fan' = [fan EXCEPT ![Janitor] = [op |-> "DeleteExpired", i |-> 0, held |-> FALSE]]
    /\ UNCHANGED <<nextTick, stPc>>
    /\ JanFrame

\* stopShardedJanitor reads sc.janitor.stop and starts to send on it.  The
\* read races with the assignment in Run: before Run has made the channel
\* the field is nil, and a send on a nil channel blocks for ever.
stopShardedJanitor(s) ==
    /\ stPc[s] \in {"idle", "returned"}
    /\ janPc # "none"
    /\ stPc' = [stPc EXCEPT ![s] = IF janPc = "spawned" THEN "sendNil" ELSE "send"]
    /\ UNCHANGED <<fan, janPc, tick, nextTick>>
    /\ JanFrame

\* a stop that is received without leaving the loop
RunStopNoReturn(s) ==
    /\ janPc = "select"
    /\ stPc[s] = "send"
    /\ stPc' = [stPc EXCEPT ![s] = "returned"]
    /\ UNCHANGED <<janPc, fan, tick, nextTick>>
    /\ JanFrame

\* case <-j.stop: return.  The channel is unbuffered: the send completes
\* only together with the receive of the select.
RunStop(s) ==
    /\ janPc = "select"
    /\ stPc[s] = "send"
    /\ janPc' = "exited"
    /\ stPc' = [stPc EXCEPT ![s] = "returned"]
    /\ UNCHANGED <<fan, tick, nextTick>>
    /\ JanFrame

----------------------------------------------------------------------------
(* The clock.                                                              *)

TickerOn == janPc \in {"select", "sweep"}

\* One time unit passes, up to the instant limit.  The ticker of a running
\* janitor fires every interval; its channel holds one tick, and a tick that
\* finds the channel full is dropped.
Elapse(limit) ==
    /\ now < limit
    /\ now' = now + 1
    /\ IF TickerOn /\ now + 1 >= nextTick
       THEN tick' = TRUE /\ nextTick' = nextTick + interval
       ELSE UNCHANGED <<tick, nextTick>>
    /\ ret' = NoCall
    /\ UNCHANGED <<seed, m, de, cs, lock, fan, janPc, interval, stPc, route, dirty>>

ClockAdvance == Elapse(MaxTime)

\* the janitor goroutine has something to do at this instant
JanitorBusy == janPc \in {"spawned", "sweep"} \/ (janPc = "select" /\ tick)

\* the clock of the timed specification: the janitor runs promptly, that is,
\* time does not pass while the janitor goroutine has a step to take
ClockAdvanceTimed ==
    /\ ~JanitorBusy
    /\ Elapse(MaxTimed)

----------------------------------------------------------------------------
(* The specifications.  Spec: the foreground callers of a cache built      *)
(* without a janitor, keyed and fan-out operations interleaved step by     *)
(* step.  SpecJanitor: Set, Get and Delete against the janitor goroutine,   *)
(* its sweeps and its stop channel.                                        *)

Keyed ==
    \E k \in Keys :
        \/ \E x \in Values, d \in Durations : Set(k, x, d)
        \/ \E x \in Values, d \in Durations : Add(k, x, d)
        \/ \E x \in Values, d \in Durations : Replace(k, x, d)
        \/ Get(k)
        \/ Delete(k)

\* the keyed operations the janitor specifications interleave with the sweeps
KeyedBasic ==
    \E k \in Keys :
        \/ \E x \in Values, d \in Durations : Set(k, x, d)
        \/ Get(k)
        \/ Delete(k)

FanOut ==
    \E p \in Callers :
        \/ DeleteExpired(p)
        \/ Items(p)
        \/ Flush(p)
        \/ ShardLock(p)
        \/ ShardStep(p)

JanitorStep ==
    \/ RunStart
    \/ RunTick
    \/ ShardLock(Janitor)
    \/ ShardStep(Janitor)
    \/ \E s \in Stoppers : stopShardedJanitor(s) \/ RunStop(s)

Next == Keyed \/ FanOut \/ ClockAdvance

Spec == Init /\ [][Next]_vars

NextJanitor == KeyedBasic \/ JanitorStep \/ ClockAdvance

SpecJanitor == InitJanitor /\ [][NextJanitor]_vars

\* SpecAnyInterval: the same steps from a cache built with a negative, a
\* zero or a positive cleanup interval
SpecAnyInterval == InitAnyInterval /\ [][NextJanitor]_vars

\* SpecTimed: a running janitor that is never stopped and runs promptly
Sweeping ==
    \/ RunStart
    \/ RunTick
    \/ ShardLock(Janitor)
    \/ ShardStep(Janitor)

NextTimed == KeyedBasic \/ Sweeping \/ ClockAdvanceTimed

SpecTimed == InitTimed /\ [][NextTimed]_vars

\* SpecAll: every foreground operation, keyed and fan-out, interleaved step
\* by step with the sweeps of a running janitor.  The keyed operations store
\* one value, for one time unit or for ever.
InitAll == Constructed({1})

KeyedAll ==
    \E k \in Keys :
        \/ \E d \in {NoExpiration, 1} : Set(k, "x", d)
        \/ \E d \in {NoExpiration, 1} : Add(k, "x", d)
        \/ \E d \in {NoExpiration, 1} : Replace(k, "x", d)
        \/ Get(k)
        \/ Delete(k)

NextAll == KeyedAll \/ FanOut \/ Sweeping \/ ClockAdvance

SpecAll == InitAll /\ [][NextAll]_vars

\* SpecAllFair: the same interleavings under fair scheduling.  A goroutine that can run is
\* scheduled (weak fairness of the step a caller takes with the lock held),
\* and a goroutine waiting for a mutex that is released again and again gets
\* it (strong fairness of taking the lock).
FairScheduling ==
    \A p \in FanProcs : SF_vars(ShardLock(p)) /\ WF_vars(ShardStep(p))

\* the keyed operations of the fair specification store entries that never
\* expire
KeyedFair ==
    \E k \in Keys :
        \/ Set(k, "x", NoExpiration)
        \/ Add(k, "x", NoExpiration)
        \/ Replace(k, "x", NoExpiration)
        \/ Get(k)
        \/ Delete(k)

NextAllFair == KeyedFair \/ FanOut \/ Sweeping \/ ClockAdvance

SpecAllFair == InitAll /\ [][NextAllFair]_vars /\ FairScheduling

\* SpecSeq: a sequential program on a cache built without a janitor: every
\* operation, keyed or fan-out, returns before the next one is called
SeqFanOut == RunToReturn("DeleteExpired") \/ RunToReturn("Flush")

NextSeq == Keyed \/ SeqFanOut \/ ClockAdvance

SpecSeq == Init /\ [][NextSeq]_vars

\* SpecHash: a cache built with any of the seeds and shard counts, on which
\* the router hashes one key after another.  A step records in ret the key,
\* the value djb33(sc.seed, k) and the index djb33(sc.seed, k) % sc.m.
InitHash ==
    /\ \E sd \in HashSeeds, n \in 1 .. MaxShards : unexportedNewSharded(sd, 0, 0, n)
    /\ now = 1
    /\ fan = [p \in FanProcs |-> Idle]
    /\ tick = FALSE
    /\ nextTick = 0
    /\ stPc = [s \in Stoppers |-> "idle"]
    /\ ret = NoCall
    /\ route = [k \in Keys |-> -1]
    /\ dirty = {}

Hash(k) ==
    LET h == djb33(seed, k) IN
    /\ ret' = Call("djb33", k, "nil", 0, Mod32(h, m), h, TRUE)
    /\ UNCHANGED <<seed, m, de, cs, lock, now, fan, janPc, interval, tick,
                   nextTick, stPc, route, dirty>>

NextHash == \E k \in HashKeys : Hash(k)

SpecHash == InitHash /\ [][NextHash]_vars

----------------------------------------------------------------------------
(* What the properties below observe.  A step that leaves ret.op other     *)
(* than "none" is a step of the keyed operation ret'.op on key ret'.k with *)
(* the arguments ret'.x and ret'.d: every other step resets ret to NoCall. *)
(* (In SpecSeq ret also records a fan-out call run from call to return, in *)
(* SpecHash the hash and the shard index computed for ret'.k.)             *)

\* the items stored under key k, in whichever shards hold one
Entries(k) == {cs[i][k] : i \in {j \in Shards : k \in DOMAIN cs[j]}}

\* the same in the state a step leads to
EntriesAfter(k) == {cs'[i][k] : i \in {j \in Shards : k \in DOMAIN cs'[j]}}

\* k has an entry that is not expired
HasLive(k) == \E it \in Entries(k) : ~Expired(it, now)

\* the shard index the hash of k selects, tabulated from djb33 for every
\* seed and shard count of the model
ShardTable ==
    [sd \in Seeds, n \in 1 .. MaxShards, k \in Keys |-> Mod32(djb33(sd, k), n)]

HashShard(k) == ShardTable[seed, m, k]

----------------------------------------------------------------------------
(* C1: a Set with a positive duration d stores (v, now + d) as the one     *)
(* entry of k, and a Get of a key whose one entry is (v, e) returns        *)
(* (v, true) while the clock is before e and found = false once the clock  *)
(* has reached e, although the entry is still in its shard's table.        *)
C1_SetThenGet ==
    [][/\ (ret'.op = "Set" /\ ret'.d > 0)
            => EntriesAfter(ret'.k) = {Item(ret'.x, now + ret'.d)}
       /\ ret'.op = "Get"
            => \A it \in Entries(ret'.k) :
                   Entries(ret'.k) = {it} =>
                       IF it.Expiration > 0 /\ now >= it.Expiration
                       THEN ~ret'.ok
                       ELSE ret'.ok /\ ret'.val = it.Object]_vars

\* a Get has just answered found = false for an entry that is expired and
\* still in the table
C1_Witness ==
    /\ ret.op = "Get"
    /\ ~ret.ok
    /\ ret.k \in DOMAIN cs[ret.shard]
    /\ Expired(cs[ret.shard][ret.k], now)

(* C2: Add stores v and returns no error when k has no unexpired entry     *)
(* (absent, or expired and not purged); when k has an unexpired entry it   *)
(* returns the key-exists error and no shard's table changes.              *)
C2_Add ==
    [][ret'.op = "Add" =>
          IF HasLive(ret'.k)
          THEN ret'.val = "ErrKeyExists" /\ cs' = cs
          ELSE /\ ret'.val = "nil"
               /\ EntriesAfter(ret'.k) = {Item(ret'.x, expirationOf(ret'.d, de, now))}]_vars

\* an Add has just failed on a live key while another shard holds an entry
C2_Witness ==
    /\ ret.op = "Add"
    /\ ret.val = "ErrKeyExists"
    /\ \E j \in Shards : j # ret.shard /\ cs[j] # NoItems

(* C3: Replace overwrites the entry and returns no error only when k has   *)
(* an unexpired entry; otherwise it returns the key-not-found error, no    *)
(* table changes, and a Get of k that follows answers found = false.       *)
C3_Replace ==
    [][/\ ret'.op = "Replace" =>
            IF HasLive(ret'.k)
            THEN /\ ret'.val = "nil"
                 /\ EntriesAfter(ret'.k) = {Item(ret'.x, expirationOf(ret'.d, de, now))}
            ELSE ret'.val = "ErrKeyNotFound" /\ cs' = cs
       /\ (ret.op = "Replace" /\ ret.val = "ErrKeyNotFound"
             /\ ret'.op = "Get" /\ ret'.k = ret.k)
            => ~ret'.ok]_vars

\* a Replace has just failed on a key whose expired entry is still stored
C3_Witness ==
    /\ ret.op = "Replace"
    /\ ret.val = "ErrKeyNotFound"
    /\ ret.k \in DOMAIN cs[ret.shard]

(* C4: the seed and the shard count never change, every keyed call selects *)
(* a shard index in 0..m-1, and every call on a key selects the index the  *)
(* first call on that key selected.                                        *)
C4_BucketDeterministic ==
    [][/\ seed' = seed
       /\ m' = m
       /\ ret'.op # "none" =>
            /\ ret'.shard \in 0 .. (m - 1)
            /\ route[ret'.k] # -1 => ret'.shard = route[ret'.k]]_vars

\* both keys have been routed, to different shards, and the clock has moved
C4_Witness ==
    /\ route[KeyAB] # -1
    /\ route[KeyBA] # -1
    /\ route[KeyAB] # route[KeyBA]
    /\ now > 1
    /\ ret.op # "none"

(* C5: a keyed operation on k changes no table and no lock other than      *)
(* those of the shard the hash of k selects.                               *)
C5_KeyedFrame ==
    [][ret'.op # "none" =>
          \A j \in Shards :
              j # HashShard(ret'.k) => cs'[j] = cs[j] /\ lock'[j] = lock[j]]_vars

\* a keyed operation has just written its shard while a fan-out operation
\* holds the lock of another shard, whose table is not empty
C5_Witness ==
    /\ ret.op \in {"Set", "Add", "Replace"}
    /\ ret.ok
    /\ \E j \in Shards : j # ret.shard /\ lock[j] # Free /\ cs[j] # NoItems

(* C6: when a Flush returns and no write was applied while it ran, the     *)
(* table of every shard, which is what Items returns, is empty.            *)
C6_FlushEmpties ==
    [][\A p \in Callers :
         (fan[p].op = "Flush" /\ fan'[p] = Idle /\ p \notin dirty)
             => \A i \in Shards : cs'[i] = NoItems]_vars

\* an undisturbed Flush of two shards is about to clear the last one, which
\* holds an entry that never expires
C6_Witness ==
    \E p \in Callers :
        /\ fan[p].op = "Flush"
        /\ fan[p].held
        /\ fan[p].i = m - 1
        /\ m >= 2
        /\ p \notin dirty
        /\ \E k \in DOMAIN cs[m - 1] : cs[m - 1][k].Expiration = 0

----------------------------------------------------------------------------
(* The janitor.                                                            *)

\* some stop call has been received: the janitor has been stopped
Stopped == janPc = "exited" \/ \E s \in Stoppers : stPc[s] = "returned"

\* a foreground step that may remove or overwrite the entry of key k in
\* shard i: a keyed write or Delete of k, or the shard step of a foreground
\* DeleteExpired or Flush on shard i
ForegroundChange(i, k) ==
    \/ ret'.op \in {"Set", "Add", "Replace", "Delete"} /\ ret'.k = k
    \/ \E p \in Callers :
          fan[p].op \in {"DeleteExpired", "Flush"} /\ fan[p].i = i /\ fan'[p] # fan[p]

\* the entry of k in shard i is removed or replaced by the step
Changed(i, k) == k \notin DOMAIN cs'[i] \/ cs'[i][k] # cs[i][k]

C8_NoSweepAfterStop ==
    [][Stopped =>
          /\ janPc' = "exited"
          /\ fan'[Janitor] = Idle
          /\ \A i \in Shards :
                \A k \in DOMAIN cs[i] : Changed(i, k) => ForegroundChange(i, k)]_vars

\* the janitor has exited and an entry that has expired since is still stored
C8_Witness ==
    /\ janPc = "exited"
    /\ ret = NoCall
    /\ \E i \in Shards : \E k \in DOMAIN cs[i] : cs[i][k].Expiration = now

(* C9: a stop call made after the janitor has stopped returns without      *)
(* blocking: whenever such a call is sending, its send can complete.       *)
C9_SecondStopReturns ==
    \A s \in Stoppers :
        (janPc = "exited" /\ stPc[s] = "send") => ENABLED RunStop(s)

(* C10: an entry that never expires is returned by Get with found = true,  *)
(* and it leaves its table, or is replaced, only by a Delete or an         *)
(* overwrite of its key or by a Flush, however far the clock has advanced. *)
C10_NeverExpiresStays ==
    [][\A i \in Shards :
          \A k \in DOMAIN cs[i] :
              cs[i][k].Expiration = 0 =>
                  /\ (ret'.op = "Get" /\ ret'.k = k)
                        => ret'.ok /\ ret'.val = cs[i][k].Object
                  /\ Changed(i, k) =>
                        \/ ret'.op \in {"Set", "Replace", "Delete"} /\ ret'.k = k
                        \/ \E p \in Callers :
                              fan[p].op = "Flush" /\ fan[p].i = i /\ fan'[p] # fan[p]]_vars

\* at the last instant the janitor is sweeping a shard that holds an entry
\* that never expires, while another entry has expired
C10_Witness ==
    /\ now = MaxTime
    /\ janPc = "sweep"
    /\ fan[Janitor].held
    /\ \E k \in DOMAIN cs[fan[Janitor].i] : cs[fan[Janitor].i][k].Expiration = 0
    /\ \E i \in Shards : \E k \in DOMAIN cs[i] : Expired(cs[i][k], now)

----------------------------------------------------------------------------
(* The hash.                                                               *)

\* 5381 + seed + l
HashStart(sd, l) == Add32(Add32(U32(0, 5381), sd), U32(0, l))

RECURSIVE MixAll(_, _)
\* d = (d * 33) ^ b for every byte b of bs, in order
MixAll(d, bs) == IF bs = <<>> THEN d ELSE MixAll(Mix(d, Head(bs)), Tail(bs))

\* the reference: every byte of the full 4-byte groups, then the 0-3
\* trailing bytes unless there is exactly one, then the fold
RefHash(sd, raw) ==
    LET l     == Len(raw)
        full  == 4 * (l \div 4)
        d1    == MixAll(HashStart(sd, l), SubSeq(raw, 1, full))
        d2    == IF l - full = 1 THEN d1 ELSE MixAll(d1, SubSeq(raw, full + 1, l))
    IN  FoldHigh(d2)

\* ret holds the hash of a string or []byte key
HashedBytes == ret.op = "djb33" /\ ret.k.kind \in {"string", "bytes"}

(* C11, as claimed: for every seed and every byte-sequence key the hash    *)
(* equals the reference, which mixes every byte of each full 4-byte group  *)
(* and then the trailing 0-3 bytes, except a single trailing byte.         *)
C11_HashIsReference ==
    HashedBytes => ret.val = RefHash(seed, ret.k.bytes)

(* C11, amended: for every seed and every byte-sequence key the hash is    *)
(* d = 5381 + seed + len(key), then d = (d * 33) XOR b for every byte b of *)
(* the key except the last one, in order, then d XOR (d >> 16).            *)
C11_HashMixesAllButLast ==
    HashedBytes =>
        LET raw == ret.k.bytes IN
        ret.val = FoldHigh(MixAll(HashStart(seed, Len(raw)),
                                  SubSeq(raw, 1, Len(raw) - 1)))

\* the hash of an 8-byte key, which the loop enters once and whose tail is
\* 4 bytes long, has been computed and is not what the reference gives
C11_Witness ==
    /\ HashedBytes
    /\ Len(ret.k.bytes) = 8
    /\ ret.val # RefHash(seed, ret.k.bytes)

\* (5381 + seed) mod 2^32 as a pair of 16-bit halves
SeedPlus5381 ==
    U32((seed.hi + ((seed.lo + 5381) \div 65536)) % 65536, (seed.lo + 5381) % 65536)

(* C12: for every seed the hash of the empty key is d XOR (d >> 16) with   *)
(* d = (5381 + seed) mod 2^32: no byte is mixed in.                        *)
C12_EmptyKey ==
    (HashedBytes /\ Len(ret.k.bytes) = 0) =>
        /\ ret.val.hi = SeedPlus5381.hi
        /\ ret.val.lo = XorNat(SeedPlus5381.lo, SeedPlus5381.hi)

\* the empty key has been hashed under the seed for which 5381 + seed wraps
\* around to 0
C12_Witness ==
    /\ HashedBytes
    /\ Len(ret.k.bytes) = 0
    /\ seed = U32(65535, 60155)
    /\ ret.val = U32(0, 0)

(* C16: a key whose type is neither string nor []byte hashes as the empty  *)
(* byte sequence, whatever its value, so every such key is routed to the   *)
(* one shard whose index is a function of the seed and the shard count.    *)
C16_OtherKeysHashAsEmpty ==
    (ret.op = "djb33" /\ ret.k.kind \notin {"string", "bytes"}) =>
        /\ ret.val = djb33(seed, BytesKey(<<>>))
        /\ ret.shard = Mod32(FoldHigh(SeedPlus5381), m)

\* a key of another type with a value of two bytes has been routed, with
\* more than one shard, to a shard other than the first
C16_Witness ==
    /\ ret.op = "djb33"
    /\ ret.k.kind = "other"
    /\ Len(ret.k.bytes) = 2
    /\ m > 1
    /\ ret.shard > 0

\* byte sequences of the same positive length that differ at most in their
\* last byte
SameButLast(a, b) ==
    /\ Len(a) = Len(b)
    /\ Len(a) > 0
    /\ SubSeq(a, 1, Len(a) - 1) = SubSeq(b, 1, Len(b) - 1)

(* C20: the hash does not read the last byte of a non-empty key: two       *)
(* byte-sequence keys of the same length that differ only in their last    *)
(* byte, hashed one after the other, get the same hash and the same shard  *)
(* index, for every seed and shard count.                                  *)
C20_LastByteNotRead ==
    [][(/\ ret.op = "djb33"
        /\ ret'.op = "djb33"
        /\ ret.k.kind \in {"string", "bytes"}
        /\ ret'.k.kind \in {"string", "bytes"}
        /\ SameButLast(ret.k.bytes, ret'.k.bytes))
          => ret'.val = ret.val /\ ret'.shard = ret.shard]_vars

\* a 4-byte key ending in byte 255 has been hashed, with more than one
\* shard, to the hash of the key of four bytes 97
C20_Witness ==
    /\ ret.op = "djb33"
    /\ ret.k = StrKey(Marked(4, 4, 255))
    /\ m > 1
    /\ ret.val = djb33(seed, StrKey(Marked(4, 0, 97)))

----------------------------------------------------------------------------
(* The janitor's stop channel.                                             *)

(* C13: a stop call issued at any point after the constructor has returned *)
(* is received by the janitor without waiting for a tick: whenever a stop  *)
(* call made before the janitor has terminated is sending and the janitor  *)
(* waits in its select, the janitor can receive the signal there.          *)
C13_StopIsReceived ==
    \A s \in Stoppers :
        (stPc[s] \in {"send", "sendNil"} /\ janPc = "select") => ENABLED RunStop(s)

(* C17: the cache has a janitor exactly if the cleanup interval given to   *)
(* the constructor is positive.  With an interval of zero or less there is *)
(* no janitor, no tick and no sweep, ever: an entry, expired or not, stays *)
(* in its table until a foreground operation removes or overwrites it.     *)
C17_JanitorIffPositiveInterval ==
    [][/\ (interval > 0) <=> (janPc # "none")
       /\ interval <= 0 =>
             /\ janPc' = "none"
             /\ fan'[Janitor] = Idle
             /\ ~tick'
             /\ \A i \in Shards :
                   \A k \in DOMAIN cs[i] : Changed(i, k) => ForegroundChange(i, k)]_vars

\* a cache built with a negative interval has no janitor, and an entry that
\* has expired is still in its table
C17_Witness ==
    /\ interval < 0
    /\ janPc = "none"
    /\ \E i \in Shards : \E k \in DOMAIN cs[i] : Expired(cs[i][k], now)

----------------------------------------------------------------------------
(* The sharded cache against one single-shard cache.                       *)

\* the keys stored in some shard
StoredKeys(tables) == UNION {DOMAIN tables[i] : i \in DOMAIN tables}

\* the union of the shards' tables
Union(tables) ==
    [k \in StoredKeys(tables) |->
        tables[CHOOSE i \in DOMAIN tables : k \in DOMAIN tables[i]][k]]

\* no key is stored in two shards, so that the union is a table
Disjoint(tables) ==
    \A i, j \in DOMAIN tables :
        i # j => DOMAIN tables[i] \cap DOMAIN tables[j] = {}

(* C18: in a sequential run every operation of the sharded cache acts on   *)
(* the union of the shards' tables as the same operation of one            *)
(* single-shard cache acts on its table at the same instant: Get, Add and  *)
(* Replace return what the single cache returns, and the union after the   *)
(* step is the single cache's table after its step.  The union is empty    *)
(* when the cache is built, so the two agree after every step.             *)
C18_SequentialEquivalence ==
    [][LET one  == Union(cs)
           k    == ret'.k
           add  == cacheAdd(one, k, ret'.x, ret'.d, de, now)
           repl == cacheReplace(one, k, ret'.x, ret'.d, de, now)
           get  == cacheGet(one, k, now)
       IN  /\ Disjoint(cs')
           /\ Union(cs') =
                 CASE ret'.op = "Set"           -> cacheSet(one, k, ret'.x, ret'.d, de, now)
                   [] ret'.op = "Add"           -> add.items
                   [] ret'.op = "Replace"       -> repl.items
                   [] ret'.op = "Delete"        -> cacheDelete(one, k)
                   [] ret'.op = "DeleteExpired" -> cacheDeleteExpired(one, now)
                   [] ret'.op = "Flush"         -> cacheFlush(one)
                   [] OTHER                     -> one
           /\ ret'.op = "Add" => ret'.val = add.err
           /\ ret'.op = "Replace" => ret'.val = repl.err
           /\ ret'.op = "Get" => ret'.val = get.val /\ ret'.ok = get.found]_vars

\* a DeleteExpired has just run at the last instant over two shards, and it
\* has left an entry that never expires in one and nothing in the other
C18_Witness ==
    /\ ret.op = "DeleteExpired"
    /\ now = MaxTime
    /\ \E i, j \in Shards :
          /\ cs[j] = NoItems
          /\ \E k \in DOMAIN cs[i] : cs[i][k].Expiration = 0

(* C19: in every reachable state, under any interleaving of foreground    *)
(* operations and janitor sweeps, a key stored in the table of shard i is  *)
(* a key whose hash selects i, djb33(seed, k) % m = i, and so no key is in *)
(* the tables of two shards.                                               *)
C19_StoredWhereRouted ==
    /\ \A i \in Shards : \A k \in DOMAIN cs[i] : HashShard(k) = i
    /\ Disjoint(cs)

\* the two keys are stored in two different shards while a sweep of the
\* janitor and a foreground Flush are under way
C19_Witness ==
    /\ m = 2
    /\ cs[0] # NoItems
    /\ cs[1] # NoItems
    /\ janPc = "sweep"
    /\ \E p \in Callers : fan[p].op = "Flush"

----------------------------------------------------------------------------
(* Locks.                                                                  *)

\* the shards whose lock p holds
Held(p) == {i \in Shards : lock[i] = p}

\* some fan-out operation is working on shard i
FanOutAt(i) == \E p \in FanProcs : fan[p].op # "idle" /\ fan[p].held /\ fan[p].i = i

(* C14: a fan-out operation, of a foreground caller or of the janitor,     *)
(* holds no lock but that of the shard it is working on, and a keyed       *)
(* operation on a key routed to shard i can take shard i's lock and        *)
(* complete whenever no fan-out operation is working on shard i itself.    *)
C14_OneShardLock ==
    /\ \A p \in FanProcs :
          Held(p) = IF fan[p].op # "idle" /\ fan[p].held THEN {fan[p].i} ELSE {}
    /\ \A k \in Keys :
          ~FanOutAt(HashShard(k)) =>
              /\ ENABLED Get(k)
              /\ ENABLED Set(k, "x", 1)
              /\ ENABLED Delete(k)

\* a Set has just completed on its shard while the janitor's sweep holds
\* the lock of another shard and a foreground Items is under way
C14_Witness ==
    /\ ret.op = "Set"
    /\ fan[Janitor].held
    /\ fan[Janitor].i # ret.shard
    /\ \E p \in Callers : fan[p].op = "Items"

\* p has started a fan-out operation and has not returned from it
Started(p) == fan[p].op # "idle"

(* C15: under any interleaving of the foreground operations and the        *)
(* janitor's sweeps no deadlock is reachable: a caller inside a fan-out    *)
(* operation can take its next step, or the holder of the lock it waits    *)
(* for can.  Under fair scheduling every fan-out operation and every sweep *)
(* that was started returns, and the lock a keyed operation needs is free  *)
(* again and again, so that the keyed operation completes.                 *)
C15_NoDeadlockAndCompletion ==
    /\ [](\A p \in FanProcs :
             Started(p) =>
                 \/ ENABLED ShardLock(p)
                 \/ ENABLED ShardStep(p)
                 \/ \E q \in FanProcs \ {p} : ENABLED ShardStep(q))
    /\ \A p \in FanProcs : Started(p) ~> (fan[p] = Idle)
    /\ \A k \in Keys : []<>(ENABLED Get(k) /\ ENABLED Set(k, "x", 1))

\* a foreground fan-out operation waits for the lock of the shard the
\* janitor's sweep is working on, and that is not the first shard
C15_Witness ==
    \E p \in Callers :
        /\ Started(p)
        /\ ~fan[p].held
        /\ fan[Janitor].held
        /\ fan[Janitor].i = fan[p].i
        /\ fan[p].i > 0

=============================================================================
